---------------------------- MODULE Spec2Model ----------------------------
(***************************************************************************)
(* AnalyticsProxy: a dispatcher that fans tracking calls out to per-vendor *)
(* provider adapters, each of which loads its vendor script through the    *)
(* process-wide ScriptLoader cache and polls for the vendor global.        *)
(*                                                                         *)
(* The model is of the browser build (typeof window !== 'undefined'), on a *)
(* page that holds at least one script tag and none of the vendor scripts. *)
(* One AnalyticsProxy is constructed; Init is the state when its           *)
(* constructor returns.                                                    *)
(***************************************************************************)
EXTENDS Integers, Sequences, FiniteSets, TLC

VARIABLES
    loadedScripts,    \* ScriptLoader.loadedScripts : Set<string>
    loadingPromises,  \* ScriptLoader.loadingPromises : src -> state of the cached promise
    scripts,          \* DOM: src -> state of the <script> element with that src
    onloadOwner,      \* DOM: src -> adapter whose onLoad/onError the element's handlers call
    fetches,          \* number of <script> elements created and appended, per src
    win,              \* vendor globals defined on window
    inst,             \* adapter instances, by <<generation, destination>>
    gen,              \* generation of the current adapter set (number of rebuilds)
    providers,        \* AnalyticsProxy.providers : the Map's keys in insertion order
    config,           \* AnalyticsProxy.config
    globalProperties, \* AnalyticsProxy.globalProperties
    calls,            \* backend calls made by the last operation, in order
    lastOp,           \* the last operation and its arguments
    threw,            \* whether the last operation threw to its caller
    userDisabled,     \* registered destinations that disableProvider/disableAllProviders
                      \* was called for, with no enableProvider/enableAllProviders since
    snapshot          \* the object the last getConfig() returned, as its caller holds it

vars == <<loadedScripts, loadingPromises, scripts, onloadOwner, fetches, win, inst,
          gen, providers, config, globalProperties, calls, lastOp, threw, userDisabled,
          snapshot>>

---------------------------------------------------------------------------
(* Bounds of the model *)

\* updateConfig calls that carry a providers key (each builds a new adapter set)
MaxRebuilds == 1

(* Program constants *)

\* the readiness poll re-arms its timer while attempts < 10
MaxAttempts == 10

---------------------------------------------------------------------------
(* Property bags: Record<string, any> as functions from keys to values *)

EmptyBag == [k \in {} |-> ""]

\* { ...g, ...p }
Merge(g, p) == [k \in (DOMAIN g) \cup (DOMAIN p) |-> IF k \in DOMAIN p THEN p[k] ELSE g[k]]

Bag1(k, v) == [x \in {k} |-> v]

Bag2(k1, v1, k2, v2) == Merge(Bag1(k1, v1), Bag1(k2, v2))

\* An optional properties field: absent (undefined) or an object
NoProps == [has |-> FALSE, bag |-> EmptyBag]

SomeProps(b) == [has |-> TRUE, bag |-> b]

\* ...x.properties : spreading undefined adds nothing
Spread(op) == IF op.has THEN op.bag ELSE EmptyBag

---------------------------------------------------------------------------
(* Destinations and configuration *)

ProviderName == {"mixpanel", "ga4", "logrocket", "amplitude"}

\* the order in which initializeProviders constructs and registers the providers
InitOrder == <<"mixpanel", "ga4", "logrocket", "amplitude">>

\* One entry of config.providers: its key, enabled, and whether its credential
\* (token / measurementId / appId / apiKey) is a non-empty string.
Entry(n, e, c) == [name |-> n, enabled |-> e, cred |-> c]

\* config.providers is an object: its entries in declaration order, keys distinct
Declared(pc) == {pc[i].name : i \in 1..Len(pc)}

EntryOf(pc, d) == pc[CHOOSE i \in 1..Len(pc) : pc[i].name = d]

\* (the credential not tested)
EligibleWithoutCredential(pc, d) == d \in Declared(pc) /\ EntryOf(pc, d).enabled

\* this.config.providers.X?.enabled && this.config.providers.X.<credential>
Eligible(pc, d) == d \in Declared(pc) /\ EntryOf(pc, d).enabled /\ EntryOf(pc, d).cred

Config(pc, gp) == [providers |-> pc, globalProperties |-> gp]

\* A Partial<AnalyticsProxyConfig>: each key present or not
Partial(hasP, pc, gp) == [hasProviders |-> hasP, providers |-> pc, globalProperties |-> gp]

\* No getConfig() call was made yet
NoSnapshot == [taken |-> FALSE, shared |-> FALSE, value |-> Config(<<>>, NoProps)]

\* (return this.config: the caller holds the dispatcher's own object)
SameObject(c) == [taken |-> TRUE, shared |-> TRUE, value |-> c]

\* { ...c }: a new object with c's top-level fields.  `shared`: the object is
\* the one this.config refers to, so that a field assigned on it is assigned on
\* this.config
ShallowCopy(c) == [taken |-> TRUE, shared |-> FALSE, value |-> c]

\* (providers merged key by key: the entries the partial does not name are kept)
DeepMerge(c, p) ==
    [providers |-> IF p.hasProviders
                   THEN SelectSeq(c.providers, LAMBDA e : e.name \notin Declared(p.providers))
                        \o p.providers
                   ELSE c.providers,
     globalProperties |-> IF p.globalProperties.has THEN p.globalProperties
                          ELSE c.globalProperties]

\* { ...this.config, ...newConfig }
ShallowMerge(c, p) ==
    [providers |-> IF p.hasProviders THEN p.providers ELSE c.providers,
     globalProperties |-> IF p.globalProperties.has THEN p.globalProperties
                          ELSE c.globalProperties]

---------------------------------------------------------------------------
(* Script sources *)

ScriptDests == {"ga4", "logrocket", "amplitude"}

SrcOf(d) ==
    CASE d = "ga4"       -> "https://www.googletagmanager.com/gtag/js?id=G-1"
      [] d = "logrocket" -> "https://cdn.lr-ingest.com/LogRocket.min.js"
      [] d = "amplitude" -> "https://cdn.amplitude.com/libs/amplitude-8.0.0-min.gz.js"

Srcs == {SrcOf(d) : d \in ScriptDests}

DestOf(u) == CHOOSE d \in ScriptDests : SrcOf(d) = u

---------------------------------------------------------------------------
(* Adapter instances *)

Gens == 0..MaxRebuilds

Ids == Gens \X ProviderName

\* no callbacks: a loadScript call that passes neither onLoad nor onError
NoCb == <<0, "none">>

\* phase: where the instance's initialize() stands
\*   "none"       no such instance (never constructed, or unreachable and idle)
\*   "acquiring"  awaiting loadScript; the element's handlers call its onLoad/onError
\*   "joined"     awaiting a promise it got from the cache; its callbacks were dropped
\*   "polling"    a readiness timer is scheduled, to run the check with `attempts`
\*   "ready"      the vendor init call returned and enable() was called
\*   "initError"  the vendor init call threw
\*   "timedOut"   the poll gave up
\*   "loadFailed" the script's onerror fired
NoInst == [phase |-> "none", enabled |-> FALSE, gp |-> EmptyBag, attempts |-> 0]

\* BaseProvider's field initialisers: enabled = false, globalProperties = {}
NewInst(ph) == [phase |-> ph, enabled |-> FALSE, gp |-> EmptyBag, attempts |-> 0]

\* A backend call: one call on a vendor global
Call(id, kind, name, props, failed) ==
    [dest |-> id[2], gen |-> id[1], kind |-> kind, name |-> name, props |-> props,
     threw |-> failed]

\* The part of the state that provider code reads and writes
Cur == [loadedScripts |-> loadedScripts, loadingPromises |-> loadingPromises,
        scripts |-> scripts, onloadOwner |-> onloadOwner, fetches |-> fetches,
        win |-> win, inst |-> inst, calls |-> <<>>]

---------------------------------------------------------------------------
(* Readiness check and vendor initialisation *)

\* The readiness predicate of each poll: the vendor global is defined on window.
\* (GA4 tests window.gtag, which GA4Provider.initialize itself defines.)
LibReady(M, d) == d \in M.win

\* The vendor init calls made once the predicate holds
InitCalls(id, failed) ==
    IF id[2] = "ga4"
    THEN IF failed THEN <<Call(id, "js", "", EmptyBag, TRUE)>>
         ELSE <<Call(id, "js", "", EmptyBag, FALSE), Call(id, "init", "", EmptyBag, FALSE)>>
    ELSE <<Call(id, "init", "", EmptyBag, failed)>>

\* (the timer re-armed one time fewer: attempts < 9)
CheckReadyOneFewer(M, id, attempts, failed) ==
    IF LibReady(M, id[2])
    THEN [M EXCEPT !.calls = @ \o InitCalls(id, failed),
                   !.inst[id].phase = IF failed THEN "initError" ELSE "ready",
                   !.inst[id].enabled = IF failed THEN @ ELSE TRUE,
                   !.inst[id].attempts = 0]
    ELSE IF attempts < MaxAttempts - 1
         THEN [M EXCEPT !.inst[id].phase = "polling", !.inst[id].attempts = attempts + 1]
         ELSE [M EXCEPT !.inst[id].phase = "timedOut", !.inst[id].attempts = 0]

\* checkGA4 / checkLogRocket / checkAmplitude (attempts): init and enable() when the
\* predicate holds, else re-arm the timer while attempts < 10, else give up.
\* `failed`: the vendor init call throws (caught and logged by the check).
CheckReady(M, id, attempts, failed) ==
    IF LibReady(M, id[2])
    THEN [M EXCEPT !.calls = @ \o InitCalls(id, failed),
                   !.inst[id].phase = IF failed THEN "initError" ELSE "ready",
                   !.inst[id].enabled = IF failed THEN @ ELSE TRUE,
                   !.inst[id].attempts = 0]
    ELSE IF attempts < MaxAttempts
         THEN [M EXCEPT !.inst[id].phase = "polling", !.inst[id].attempts = attempts + 1]
         ELSE [M EXCEPT !.inst[id].phase = "timedOut", !.inst[id].attempts = 0]

\* (the callback looked up by destination name: it reaches the adapter now registered)
OnLoadByName(M, cb, failed) ==
    IF cb = NoCb THEN M ELSE CheckReady(M, <<gen, cb[2]>>, 0, failed)

\* onLoad?.() : the adapter's onLoad starts its poll with checkX() (attempts = 0)
OnLoad(M, cb, failed) == IF cb = NoCb THEN M ELSE CheckReady(M, cb, 0, failed)

---------------------------------------------------------------------------
(* ScriptLoader.loadScript *)

\* What a loadScript(src) call does, decided by the cache and the DOM:
\*   "cachedPromise" loadingPromises has src: that promise is returned, no callback runs
\*   "cachedLoaded"  loadedScripts has src: onLoad runs, a resolved promise is returned
\*   "existing"      a script element with that src is in the DOM: marked loaded, onLoad runs
\*   "fetch"         a script element is created and appended
LoadDecisionNoDedup(M, u) ==
    IF u \in M.loadedScripts THEN "cachedLoaded" ELSE "fetch"

\* (a rejected promise not served from the cache)
LoadDecisionForgetsFailure(M, u) ==
    IF M.loadingPromises[u] \notin {"none", "rejected"} THEN "cachedPromise"
    ELSE IF u \in M.loadedScripts THEN "cachedLoaded"
    ELSE IF M.scripts[u] # "absent" THEN "existing"
    ELSE "fetch"

\* (only the promise cache consulted: neither loadedScripts nor the DOM)
LoadDecisionPromiseOnly(M, u) ==
    IF M.loadingPromises[u] # "none" THEN "cachedPromise" ELSE "fetch"

LoadDecision(M, u) ==
    IF M.loadingPromises[u] # "none" THEN "cachedPromise"
    ELSE IF u \in M.loadedScripts THEN "cachedLoaded"
    ELSE IF M.scripts[u] # "absent" THEN "existing"
    ELSE "fetch"

\* loadScript({src: u, onLoad, onError}) with the callbacks of adapter cb (or none),
\* run up to the point where it returns its promise
LoadScript(M, u, cb, failed) ==
    LET dec == LoadDecision(M, u)
        \* the caller's phase when the call has returned
        W(N, ph) == IF cb = NoCb THEN N ELSE [N EXCEPT !.inst[cb].phase = ph]
    IN  CASE dec = "cachedPromise" -> W(M, "joined")
          [] dec = "cachedLoaded"  -> OnLoad(W(M, "joined"), cb, failed)
          [] dec = "existing"      ->
                OnLoad([W(M, "joined") EXCEPT !.loadedScripts = @ \cup {u},
                                              !.loadingPromises[u] = "fulfilled"],
                       cb, failed)
          [] dec = "fetch"         ->
                [W(M, "acquiring") EXCEPT !.scripts[u] = "loading",
                                          !.onloadOwner[u] = cb,
                                          !.fetches[u] = @ + 1,
                                          !.loadingPromises[u] = "pending"]

---------------------------------------------------------------------------
(* Provider constructors *)

\* new MixpanelProvider(...): initialize() runs to its end inside the constructor.
\* The snippet defines window.mixpanel when it is not yet there; initializeMixpanel
\* calls init and then enable(), which opts in.  `failed`: init throws (caught).
NewMixpanel(M, id, failed) ==
    LET N == [M EXCEPT !.win = @ \cup {"mixpanel"}, !.inst[id] = NewInst("ready")]
    IN  IF failed
        THEN [N EXCEPT !.calls = @ \o <<Call(id, "init", "", EmptyBag, TRUE)>>,
                       !.inst[id].phase = "initError"]
        ELSE [N EXCEPT !.calls = @ \o <<Call(id, "init", "", EmptyBag, FALSE),
                                        Call(id, "optIn", "", EmptyBag, FALSE)>>,
                       !.inst[id].enabled = TRUE]

\* new GA4Provider(...): initialize() defines window.gtag and awaits loadScript
NewGA4(M, id, failed) ==
    LoadScript([M EXCEPT !.win = @ \cup {"ga4"}, !.inst[id] = NewInst("joined")],
               SrcOf("ga4"), id, failed)

\* new LogRocketProvider(...) / new AmplitudeProvider(...): initialize() awaits loadScript
NewScriptProvider(M, id, failed) ==
    LoadScript([M EXCEPT !.inst[id] = NewInst("joined")], SrcOf(id[2]), id, failed)

NewProvider(M, id, failed) ==
    CASE id[2] = "mixpanel" -> NewMixpanel(M, id, failed)
      [] id[2] = "ga4"      -> NewGA4(M, id, failed)
      [] OTHER              -> NewScriptProvider(M, id, failed)

\* One block of initializeProviders: construct and register d if it is eligible.
\* `fault`: the destination whose vendor init call throws in this run, or "none".
InitStep(M, pc, g, d, fault) ==
    IF Eligible(pc, d) THEN NewProvider(M, <<g, d>>, fault = d) ELSE M

\* initializeProviders(): the four blocks in their fixed order
InitializeProviders(M, pc, g, fault) ==
    InitStep(InitStep(InitStep(InitStep(M, pc, g, InitOrder[1], fault),
                               pc, g, InitOrder[2], fault),
                      pc, g, InitOrder[3], fault),
             pc, g, InitOrder[4], fault)

\* (the providers registered in the order the configuration declares them)
RegisteredAsDeclared(pc) ==
    LET names == [i \in 1..Len(pc) |-> pc[i].name]
    IN  SelectSeq(names, LAMBDA d : Eligible(pc, d))

\* The keys of this.providers after initializeProviders() on an empty Map
Registered(pc) == SelectSeq(InitOrder, LAMBDA d : Eligible(pc, d))

---------------------------------------------------------------------------
(* BaseProvider and the concrete providers' tracking calls *)

\* (the spread written the other way round: the global value wins)
EnrichGlobalWins(gp, props) == Merge(Spread(props), gp)

\* { ...this.globalProperties, ...x.properties }
Enrich(gp, props) == Merge(gp, Spread(props))

\* Property names every object literal inherits from Object.prototype (those a
\* caller is likely to meet): propertyMap[key] finds the inherited function
ObjectPrototypeKeys ==
    {"constructor", "toString", "valueOf", "hasOwnProperty", "isPrototypeOf",
     "propertyIsEnumerable", "toLocaleString"}

\* MixpanelProvider.mapToMixpanelProperties: propertyMap[key] || key, where
\* propertyMap is an object literal.  For an inherited name the lookup yields a
\* function, which is truthy, and the function's source text becomes the key.
MixpanelKey(k) ==
    CASE k = "email"      -> "$email"
      [] k = "name"       -> "$name"
      [] k = "firstName"  -> "$first_name"
      [] k = "first_name" -> "$first_name"
      [] k = "lastName"   -> "$last_name"
      [] k = "last_name"  -> "$last_name"
      [] k = "phone"      -> "$phone"
      [] k = "avatar"     -> "$avatar"
      [] k = "created"    -> "$created"
      [] k = "city"       -> "$city"
      [] k = "region"     -> "$region"
      [] k = "country"    -> "$country"
      [] k = "timezone"   -> "$timezone"
      [] k = "constructor" -> "function Object() { [native code] }"
      [] k \in ObjectPrototypeKeys \ {"constructor"} ->
            "function " \o k \o "() { [native code] }"
      [] OTHER            -> k

\* (two keys that map to one name: the later entry of the object wins; the inputs
\*  of this model never hold both spellings of a name)
MapToMixpanelProperties(b) ==
    [m \in {MixpanelKey(k) : k \in DOMAIN b} |->
        b[CHOOSE k \in DOMAIN b : MixpanelKey(k) = m]]

\* (the vendor global not tested before it is called)
TrackEventInternalUnchecked(M, id, name, props, failed) ==
    <<Call(id, "track", name, props, failed)>>

\* trackEventInternal(event) of the provider id, event.properties = props.
\* `failed`: the vendor call throws (caught and logged inside trackEventInternal).
TrackEventInternal(M, id, name, props, failed) ==
    IF id[2] \notin M.win THEN <<>>
    ELSE IF id[2] = "ga4"
    THEN <<Call(id, "track", name,
                Merge(Bag2("event_category", "custom", "event_label", name), props), failed)>>
    ELSE <<Call(id, "track", name, props, failed)>>

\* identifyUserInternal(user): the identify call, then the profile properties if
\* user.properties is given.  `failed`: the first vendor call throws (caught).
IdentifyUserInternal(M, id, uid, uprops, failed) ==
    LET d == id[2]
        profile(b) == IF failed \/ ~uprops.has THEN <<>>
                      ELSE <<Call(id, "profile", "", b, FALSE)>>
    IN  IF d \notin M.win THEN <<>>
        ELSE CASE d = "mixpanel" ->
                    <<Call(id, "identify", uid, EmptyBag, failed)>>
                        \o profile(MapToMixpanelProperties(uprops.bag))
               [] d = "ga4" ->
                    <<Call(id, "identify", uid, Bag1("user_id", uid), failed)>>
                        \o profile(uprops.bag)
               [] d = "logrocket" ->
                    <<Call(id, "identify", uid, Spread(uprops), failed)>>
               [] d = "amplitude" ->
                    <<Call(id, "identify", uid, EmptyBag, failed)>> \o profile(uprops.bag)

\* trackPageViewInternal(pageView), pageView.properties = props (an object)
TrackPageViewInternal(M, id, url, title, props, failed) ==
    IF id[2] \notin M.win THEN <<>>
    ELSE IF id[2] = "ga4"
    THEN <<Call(id, "page", "config",
                Merge(Bag2("page_title", title, "page_location", url), props), failed)>>
    ELSE <<Call(id, "page", "Page View",
                Merge(Bag2("url", url, "title", title), props), failed)>>

\* (the merged properties assigned to the payload itself)
EnrichedInPlace(gp, x) == [x EXCEPT !.properties = SomeProps(Enrich(gp, x.properties))]

\* const enriched = { ...x, properties: {...} } (and identifyUser's plain hand-over):
\* the provider builds a new object and assigns nothing on x, so x is what its
\* caller gets back
HandedBack(gp, x) == x

\* (the event forwarded twice)
ProviderTrackEventTwice(M, id, e, failed) ==
    IF ~M.inst[id].enabled THEN <<>>
    ELSE TrackEventInternal(M, id, e.name, Enrich(M.inst[id].gp, e.properties), failed)
         \o TrackEventInternal(M, id, e.name, Enrich(M.inst[id].gp, e.properties), failed)

\* BaseProvider.trackEvent: nothing when disabled, else enrich and forward
ProviderTrackEvent(M, id, e, failed) ==
    IF ~M.inst[id].enabled THEN <<>>
    ELSE TrackEventInternal(M, id, e.name, Enrich(M.inst[id].gp, e.properties), failed)

\* BaseProvider.identifyUser: nothing when disabled, else forward the user as given
ProviderIdentifyUser(M, id, u, failed) ==
    IF ~M.inst[id].enabled THEN <<>>
    ELSE IdentifyUserInternal(M, id, u.id, u.properties, failed)

\* BaseProvider.trackPageView: nothing when disabled, else enrich and forward
ProviderTrackPageView(M, id, pv, failed) ==
    IF ~M.inst[id].enabled THEN <<>>
    ELSE TrackPageViewInternal(M, id, pv.url, pv.title,
                               Enrich(M.inst[id].gp, pv.properties), failed)

\* enable() / disable() of the provider id: the flag, then Mixpanel's opt in / opt out,
\* which is not guarded: when it throws (`failed`) the exception leaves enable/disable.
\* R = [inst, calls, threw]; a step after a throw does not run.
SetEnabled(R, id, on, failed, w) ==
    IF R.threw THEN R
    ELSE IF id[2] = "mixpanel" /\ "mixpanel" \in w
    THEN [inst |-> [R.inst EXCEPT ![id].enabled = on],
          calls |-> R.calls \o <<Call(id, IF on THEN "optIn" ELSE "optOut", "", EmptyBag, failed)>>,
          threw |-> failed]
    ELSE [R EXCEPT !.inst[id].enabled = on]

---------------------------------------------------------------------------
(* Inputs *)

\* two of the four eligible (one ready inside its constructor, one that loads a
\* script), declared in another order than InitOrder
TwoOfFour == <<Entry("ga4", TRUE, TRUE), Entry("amplitude", FALSE, TRUE),
               Entry("mixpanel", TRUE, TRUE), Entry("logrocket", TRUE, FALSE)>>

OnlyLogRocket == <<Entry("logrocket", TRUE, TRUE)>>

OnlyMixpanel == <<Entry("mixpanel", TRUE, TRUE)>>

\* the configurations the proxy is constructed with
InitConfigs ==
    {Config(TwoOfFour, SomeProps(Bag1("a", "1"))),
     Config(OnlyLogRocket, NoProps),
     Config(OnlyMixpanel, SomeProps(Bag1("a", "1")))}

\* the partial configurations updateConfig is called with
Partials ==
    {Partial(TRUE, <<Entry("mixpanel", FALSE, TRUE)>>, NoProps),
     Partial(TRUE, <<Entry("logrocket", TRUE, TRUE), Entry("mixpanel", TRUE, TRUE)>>,
             SomeProps(Bag2("a", "3", "b", "1"))),
     Partial(FALSE, <<>>, SomeProps(Bag1("b", "1")))}

GlobalInputs == {Bag1("a", "1")}

Events == {[name |-> "Signup", properties |-> SomeProps(Bag2("a", "2", "email", "e"))]}

Users ==
    {[id |-> "u1",
      properties |-> SomeProps(Merge(Bag2("a", "2", "email", "e"), Bag1("constructor", "c")))]}

PageViews ==
    {[url |-> "/home", title |-> "Home",
      properties |-> SomeProps(Merge(Bag2("a", "2", "email", "e"), Bag1("url", "/other")))]}

\* what the caller of getConfig() assigns to a field of the returned object
SnapshotEdits == {Config(<<>>, SomeProps(Bag1("z", "9")))}

\* the srcs loadScript is called with directly
DirectSrcs == {SrcOf("logrocket")}

\* the destination whose vendor calls throw during one operation, or "none"
Faults == {"none"} \cup ProviderName

\* the same for enable() and disable(), where only Mixpanel calls its vendor
OptFaults == {"none", "mixpanel"}

---------------------------------------------------------------------------
(* State changes shared by the actions *)

\* `props` is the properties argument as the caller passed it, `after` the same
\* object when the call has returned
Op(name, d, a, b) == [op |-> name, dest |-> d, name |-> a, props |-> b, after |-> b]

\* the current instance of destination d
CurId(d) == <<gen, d>>

InProviders(d) == \E i \in 1..Len(providers) : providers[i] = d

\* An instance that no adapter set holds any more is kept only while a script
\* handler or a timer still refers to it, and then only what those read.
Collect(f, g) ==
    [id \in Ids |->
        IF id[1] = g THEN f[id]
        ELSE IF f[id].phase \in {"acquiring", "polling"}
        THEN [NoInst EXCEPT !.phase = f[id].phase, !.attempts = f[id].attempts]
        ELSE NoInst]

Commit(M, g) ==
    /\ loadedScripts' = M.loadedScripts
    /\ loadingPromises' = M.loadingPromises
    /\ scripts' = M.scripts
    /\ onloadOwner' = M.onloadOwner
    /\ fetches' = M.fetches
    /\ win' = M.win
    /\ inst' = Collect(M.inst, g)
    /\ calls' = M.calls

\* (the properties forwarded to the enabled providers only)
ForwardGlobalToEnabled(f, provs, g, p) ==
    [id \in Ids |->
        IF id[1] = g /\ (\E i \in 1..Len(provs) : provs[i] = id[2]) /\ f[id].enabled
        THEN [f[id] EXCEPT !.gp = Merge(@, p)]
        ELSE f[id]]

\* provider.setGlobalProperties(p) on every provider of the Map
ForwardGlobal(f, provs, g, p) ==
    [id \in Ids |->
        IF id[1] = g /\ (\E i \in 1..Len(provs) : provs[i] = id[2])
        THEN [f[id] EXCEPT !.gp = Merge(@, p)]
        ELSE f[id]]

\* (no try/catch around the vendor calls: a throwing call leaves the method)
Unguarded(cs) == [calls |-> cs, threw |-> \E i \in 1..Len(cs) : cs[i].threw]

\* try { <vendor calls> } catch (error) { this.log(...) } in every xInternal method:
\* the calls made, and whether an exception leaves the method
Guarded(cs) == [calls |-> cs, threw |-> FALSE]

\* (the Map walked from its last entry to its first)
FanOutReversed(op, x, fault) ==
    LET one(id, y) ==
            CASE op = "trackEvent"    -> ProviderTrackEvent(Cur, id, y, fault = id[2])
              [] op = "identifyUser"  -> ProviderIdentifyUser(Cur, id, y, fault = id[2])
              [] op = "trackPageView" -> ProviderTrackPageView(Cur, id, y, fault = id[2])
        step(R, i) ==
            IF R.threw \/ i > Len(providers) THEN R
            ELSE IF ~inst[CurId(providers[i])].enabled THEN R
            ELSE LET id == CurId(providers[i])
                     g == Guarded(one(id, R.payload))
                 IN  [calls |-> R.calls \o g.calls, threw |-> g.threw,
                      payload |-> HandedBack(inst[id].gp, R.payload)]
    IN  step(step(step(step([calls |-> <<>>, threw |-> FALSE, payload |-> x], 4), 3), 2), 1)

\* this.providers.forEach(provider => { if (provider.isEnabled()) provider.<op>(x) }):
\* the backend calls made, provider by provider in the Map's order, and whether an
\* exception left the forEach (which has no try/catch of its own and stops there),
\* and the payload object as the providers leave it
FanOut(op, x, fault) ==
    LET one(id, y) ==
            CASE op = "trackEvent"    -> ProviderTrackEvent(Cur, id, y, fault = id[2])
              [] op = "identifyUser"  -> ProviderIdentifyUser(Cur, id, y, fault = id[2])
              [] op = "trackPageView" -> ProviderTrackPageView(Cur, id, y, fault = id[2])
        step(R, i) ==
            IF R.threw \/ i > Len(providers) THEN R
            ELSE IF ~inst[CurId(providers[i])].enabled THEN R
            ELSE LET id == CurId(providers[i])
                     g == Guarded(one(id, R.payload))
                 IN  [calls |-> R.calls \o g.calls, threw |-> g.threw,
                      payload |-> HandedBack(inst[id].gp, R.payload)]
    IN  step(step(step(step([calls |-> <<>>, threw |-> FALSE, payload |-> x], 1), 2), 3), 4)

\* this.providers.forEach(provider => provider.enable() / provider.disable())
ForEachSetEnabled(on, fault) ==
    LET step(R, i) == IF i <= Len(providers)
                      THEN SetEnabled(R, CurId(providers[i]), on, fault = providers[i], win)
                      ELSE R
    IN  step(step(step(step([inst |-> inst, calls |-> <<>>, threw |-> FALSE], 1), 2), 3), 4)

\* the destinations whose vendor calls an operation on the current adapters can reach
Reachable == {d \in ProviderName : InProviders(d) /\ d \in win}

Loader == <<loadedScripts, loadingPromises, scripts, onloadOwner, fetches>>

Dispatcher == <<gen, providers, config, globalProperties>>

---------------------------------------------------------------------------
(* Initial state: the constructor has returned *)

Blank ==
    [loadedScripts |-> {}, loadingPromises |-> [u \in Srcs |-> "none"],
     scripts |-> [u \in Srcs |-> "absent"], onloadOwner |-> [u \in Srcs |-> NoCb],
     fetches |-> [u \in Srcs |-> 0], win |-> {}, inst |-> [id \in Ids |-> NoInst],
     calls |-> <<>>]

\* constructor(config): this.config = config; initializeProviders();
\* setGlobalProperties(config.globalProperties || {})
Init ==
    \E cfg \in InitConfigs, fault \in Faults :
        LET M == InitializeProviders(Blank, cfg.providers, 0, fault)
            gp == Spread(cfg.globalProperties)
        IN  /\ loadedScripts = M.loadedScripts
            /\ loadingPromises = M.loadingPromises
            /\ scripts = M.scripts
            /\ onloadOwner = M.onloadOwner
            /\ fetches = M.fetches
            /\ win = M.win
            /\ inst = ForwardGlobal(M.inst, Registered(cfg.providers), 0, gp)
            /\ calls = M.calls
            /\ gen = 0
            /\ providers = Registered(cfg.providers)
            /\ config = cfg
            /\ globalProperties = gp
            /\ lastOp = Op("constructor", "", "", EmptyBag)
            /\ threw = FALSE
            /\ userDisabled = {}
            /\ snapshot = NoSnapshot

---------------------------------------------------------------------------
(* The browser: script elements, vendor globals, timers *)

\* script.onload: the src is marked loaded, the owner's onLoad runs, the promise
\* resolves.  `defined`: the script has defined its vendor global by now.
ScriptLoaded(u, defined, failed) ==
    /\ scripts[u] = "loading"
    /\ LET M0 == [Cur EXCEPT !.scripts[u] = "loaded",
                             !.win = IF defined THEN @ \cup {DestOf(u)} ELSE @,
                             !.loadedScripts = @ \cup {u},
                             !.loadingPromises[u] = IF @ = "pending" THEN "fulfilled" ELSE @]
       IN  Commit(OnLoad(M0, onloadOwner[u], failed), gen)
    /\ lastOp' = Op("onload", DestOf(u), "", EmptyBag)
    /\ threw' = FALSE
    /\ UNCHANGED <<Dispatcher, userDisabled, snapshot>>

\* (onerror treated like onload: the owner's readiness poll is started)
ScriptFailedStartsPoll(u) ==
    /\ scripts[u] = "loading"
    /\ LET M0 == [Cur EXCEPT !.scripts[u] = "failed",
                             !.loadingPromises[u] = IF @ = "pending" THEN "rejected" ELSE @]
       IN  Commit(OnLoad(M0, onloadOwner[u], FALSE), gen)
    /\ lastOp' = Op("onerror", DestOf(u), "", EmptyBag)
    /\ threw' = FALSE
    /\ UNCHANGED <<Dispatcher, userDisabled, snapshot>>

\* script.onerror: the owner's onError logs, the promise rejects
ScriptFailed(u) ==
    /\ scripts[u] = "loading"
    /\ LET o == onloadOwner[u]
           M0 == [Cur EXCEPT !.scripts[u] = "failed",
                             !.loadingPromises[u] = IF @ = "pending" THEN "rejected" ELSE @]
       IN  Commit(IF o = NoCb THEN M0 ELSE [M0 EXCEPT !.inst[o].phase = "loadFailed"], gen)
    /\ lastOp' = Op("onerror", DestOf(u), "", EmptyBag)
    /\ threw' = FALSE
    /\ UNCHANGED <<Dispatcher, userDisabled, snapshot>>

\* a loaded vendor script defines its global some time after its load event
DefineLib(d) ==
    /\ d \in ScriptDests
    /\ scripts[SrcOf(d)] = "loaded"
    /\ d \notin win
    /\ Commit([Cur EXCEPT !.win = @ \cup {d}], gen)
    /\ lastOp' = Op("define", d, "", EmptyBag)
    /\ threw' = FALSE
    /\ UNCHANGED <<Dispatcher, userDisabled, snapshot>>

\* (a timer left armed after the poll gave up)
TimerFireAfterGivingUp(id, failed) ==
    /\ inst[id].phase \in {"polling", "timedOut"}
    /\ Commit(CheckReady(Cur, id, inst[id].attempts, failed), gen)
    /\ lastOp' = Op("timer", id[2], "", EmptyBag)
    /\ threw' = FALSE
    /\ UNCHANGED <<Dispatcher, userDisabled, snapshot>>

\* setTimeout(() => checkX(attempts + 1), 100) fires
TimerFire(id, failed) ==
    /\ inst[id].phase = "polling"
    /\ Commit(CheckReady(Cur, id, inst[id].attempts, failed), gen)
    /\ lastOp' = Op("timer", id[2], "", EmptyBag)
    /\ threw' = FALSE
    /\ UNCHANGED <<Dispatcher, userDisabled, snapshot>>

\* ScriptLoader.loadScript({src: u}) called directly (useScriptLoader), no callbacks
LoadScriptDirect(u) ==
    /\ Commit(LoadScript(Cur, u, NoCb, FALSE), gen)
    /\ lastOp' = Op("loadScript", DestOf(u), "", EmptyBag)
    /\ threw' = FALSE
    /\ UNCHANGED <<Dispatcher, userDisabled, snapshot>>

\* ScriptLoader.clearCache()
ClearCache ==
    /\ Commit([Cur EXCEPT !.loadedScripts = {}, !.loadingPromises = [u \in Srcs |-> "none"]],
              gen)
    /\ lastOp' = Op("clearCache", "", "", EmptyBag)
    /\ threw' = FALSE
    /\ UNCHANGED <<Dispatcher, userDisabled, snapshot>>

---------------------------------------------------------------------------
(* AnalyticsProxy: the public operations *)

TrackEvent(e, fault) ==
    /\ calls' = FanOut("trackEvent", e, fault).calls
    /\ lastOp' = [Op("trackEvent", "", e.name, Spread(e.properties))
                    EXCEPT !.after = Spread(FanOut("trackEvent", e, fault).payload.properties)]
    /\ threw' = FanOut("trackEvent", e, fault).threw
    /\ UNCHANGED <<Loader, win, inst, Dispatcher, userDisabled, snapshot>>

IdentifyUser(u, fault) ==
    /\ calls' = FanOut("identifyUser", u, fault).calls
    /\ lastOp' = [Op("identifyUser", "", u.id, Spread(u.properties))
                    EXCEPT !.after = Spread(FanOut("identifyUser", u, fault).payload.properties)]
    /\ threw' = FanOut("identifyUser", u, fault).threw
    /\ UNCHANGED <<Loader, win, inst, Dispatcher, userDisabled, snapshot>>

TrackPageView(pv, fault) ==
    /\ calls' = FanOut("trackPageView", pv, fault).calls
    /\ lastOp' = [Op("trackPageView", "", pv.url, Spread(pv.properties))
                    EXCEPT !.after = Spread(FanOut("trackPageView", pv, fault).payload.properties)]
    /\ threw' = FanOut("trackPageView", pv, fault).threw
    /\ UNCHANGED <<Loader, win, inst, Dispatcher, userDisabled, snapshot>>

SetGlobalProperties(p) ==
    /\ globalProperties' = Merge(globalProperties, p)
    /\ inst' = ForwardGlobal(inst, providers, gen, p)
    /\ calls' = <<>>
    /\ lastOp' = Op("setGlobalProperties", "", "", p)
    /\ threw' = FALSE
    /\ UNCHANGED <<Loader, win, gen, providers, config, userDisabled, snapshot>>

\* (a name the Map does not hold raises an error instead of a warning)
SetProviderOrThrow(d, on, fault) ==
    LET R == IF InProviders(d)
             THEN SetEnabled([inst |-> inst, calls |-> <<>>, threw |-> FALSE],
                             CurId(d), on, fault = d, win)
             ELSE [inst |-> inst, calls |-> <<>>, threw |-> TRUE]
    IN  /\ inst' = R.inst
        /\ calls' = R.calls
        /\ threw' = R.threw
        /\ lastOp' = Op(IF on THEN "enableProvider" ELSE "disableProvider", d, "", EmptyBag)
        /\ userDisabled' = IF on THEN userDisabled \ {d}
                           ELSE IF InProviders(d) THEN userDisabled \cup {d}
                           ELSE userDisabled
        /\ UNCHANGED <<Loader, win, Dispatcher, snapshot>>

\* enableProvider(d) / disableProvider(d): a name the Map does not hold is warned about
SetProvider(d, on, fault) ==
    LET R == IF InProviders(d)
             THEN SetEnabled([inst |-> inst, calls |-> <<>>, threw |-> FALSE],
                             CurId(d), on, fault = d, win)
             ELSE [inst |-> inst, calls |-> <<>>, threw |-> FALSE]
    IN  /\ inst' = R.inst
        /\ calls' = R.calls
        /\ threw' = R.threw
        /\ lastOp' = Op(IF on THEN "enableProvider" ELSE "disableProvider", d, "", EmptyBag)
        /\ userDisabled' = IF on THEN userDisabled \ {d}
                           ELSE IF InProviders(d) THEN userDisabled \cup {d}
                           ELSE userDisabled
        /\ UNCHANGED <<Loader, win, Dispatcher, snapshot>>

EnableProvider(d, fault) == SetProvider(d, TRUE, fault)

DisableProvider(d, fault) == SetProvider(d, FALSE, fault)

SetAllProviders(on, fault) ==
    LET R == ForEachSetEnabled(on, fault)
    IN  /\ inst' = R.inst
        /\ calls' = R.calls
        /\ threw' = R.threw
        /\ lastOp' = Op(IF on THEN "enableAllProviders" ELSE "disableAllProviders",
                        "", "", EmptyBag)
        /\ userDisabled' = IF on THEN {} ELSE userDisabled \cup {d \in ProviderName : InProviders(d)}
        /\ UNCHANGED <<Loader, win, Dispatcher, snapshot>>

EnableAllProviders(fault) == SetAllProviders(TRUE, fault)

DisableAllProviders(fault) == SetAllProviders(FALSE, fault)

\* (the adapters rebuilt on every updateConfig, whether or not providers is given)
UpdateConfigAlwaysRebuilds(p, fault) ==
    /\ gen < MaxRebuilds
    /\ LET merged == ShallowMerge(config, p)
           g == gen + 1
           f1 == IF p.globalProperties.has
                 THEN ForwardGlobal(inst, providers, gen, p.globalProperties.bag)
                 ELSE inst
           M1 == [Cur EXCEPT !.inst = f1]
           M2 == InitializeProviders(M1, merged.providers, g, fault)
       IN  /\ config' = merged
           /\ globalProperties' = IF p.globalProperties.has
                                  THEN Merge(globalProperties, p.globalProperties.bag)
                                  ELSE globalProperties
           /\ gen' = g
           /\ providers' = Registered(merged.providers)
           /\ Commit(M2, g)
    /\ lastOp' = Op("updateConfig", "", IF p.hasProviders THEN "providers" ELSE "",
                    Spread(p.globalProperties))
    /\ threw' = FALSE
    /\ userDisabled' = {d \in userDisabled : \E i \in 1..Len(providers') : providers'[i] = d}
    /\ snapshot' = [snapshot EXCEPT !.shared = FALSE]

\* updateConfig(newConfig): merge; setGlobalProperties if globalProperties is given;
\* providers.clear() and initializeProviders() if providers is given
UpdateConfig(p, fault) ==
    /\ p.hasProviders => gen < MaxRebuilds
    /\ LET merged == ShallowMerge(config, p)
           g == IF p.hasProviders THEN gen + 1 ELSE gen
           f1 == IF p.globalProperties.has
                 THEN ForwardGlobal(inst, providers, gen, p.globalProperties.bag)
                 ELSE inst
           M1 == [Cur EXCEPT !.inst = f1]
           M2 == IF p.hasProviders THEN InitializeProviders(M1, merged.providers, g, fault)
                 ELSE M1
       IN  /\ config' = merged
           /\ globalProperties' = IF p.globalProperties.has
                                  THEN Merge(globalProperties, p.globalProperties.bag)
                                  ELSE globalProperties
           /\ gen' = g
           /\ providers' = IF p.hasProviders THEN Registered(merged.providers) ELSE providers
           /\ Commit(M2, g)
    /\ lastOp' = Op("updateConfig", "", IF p.hasProviders THEN "providers" ELSE "",
                    Spread(p.globalProperties))
    /\ threw' = FALSE
    /\ userDisabled' = {d \in userDisabled : \E i \in 1..Len(providers') : providers'[i] = d}
    /\ snapshot' = [snapshot EXCEPT !.shared = FALSE]

\* getConfig(): return { ...this.config }
GetConfigCall ==
    /\ snapshot' = ShallowCopy(config)
    /\ calls' = <<>>
    /\ lastOp' = Op("getConfig", "", "", EmptyBag)
    /\ threw' = FALSE
    /\ UNCHANGED <<Loader, win, inst, Dispatcher, userDisabled>>

\* the caller assigns top-level field f of the object getConfig() returned
ReplaceSnapshotField(f, c) ==
    /\ snapshot.taken
    /\ snapshot' = [snapshot EXCEPT !.value[f] = c[f]]
    /\ config' = IF snapshot.shared THEN [config EXCEPT ![f] = c[f]] ELSE config
    /\ calls' = <<>>
    /\ lastOp' = Op("replaceField", "", f, EmptyBag)
    /\ threw' = FALSE
    /\ UNCHANGED <<Loader, win, inst, gen, providers, globalProperties, userDisabled>>

---------------------------------------------------------------------------
(* Specification *)

\* the vendor scripts load or fail; a script that loads has defined its global
ScriptEvents ==
    \/ \E u \in Srcs, failed \in BOOLEAN : ScriptLoaded(u, TRUE, failed)
    \/ \E u \in Srcs : ScriptFailed(u)

\* the vendor scripts load or fail; a script may define its global after its load event
SlowScriptEvents ==
    \/ \E u \in Srcs, defined \in BOOLEAN, failed \in BOOLEAN : ScriptLoaded(u, defined, failed)
    \/ \E u \in Srcs : ScriptFailed(u)
    \/ \E d \in ScriptDests : DefineLib(d)
    \/ \E id \in Ids, failed \in BOOLEAN : TimerFire(id, failed)

LoaderCalls ==
    \/ \E u \in DirectSrcs : LoadScriptDirect(u)
    \/ ClearCache

Tracking ==
    \/ \E e \in Events, fault \in {"none"} \cup Reachable : TrackEvent(e, fault)
    \/ \E u \in Users, fault \in {"none"} \cup Reachable : IdentifyUser(u, fault)
    \/ \E pv \in PageViews, fault \in {"none"} \cup Reachable : TrackPageView(pv, fault)

Management ==
    \/ \E p \in GlobalInputs : SetGlobalProperties(p)
    \/ \E d \in ProviderName, fault \in OptFaults : EnableProvider(d, fault)
    \/ \E d \in ProviderName, fault \in OptFaults : DisableProvider(d, fault)
    \/ \E fault \in OptFaults : EnableAllProviders(fault)
    \/ \E fault \in OptFaults : DisableAllProviders(fault)
    \/ \E p \in Partials : \E fault \in {"none"} \cup Declared(p.providers) : UpdateConfig(p, fault)

\* The dispatcher driven by its caller while the vendor scripts load
Next == ScriptEvents \/ Tracking \/ Management

Spec == Init /\ [][Next]_vars

Rebuilds ==
    \E p \in Partials : \E fault \in {"none"} \cup Declared(p.providers) : UpdateConfig(p, fault)

\* The script cache driven by the adapters and by direct callers, with slow vendor scripts
LoaderNext == SlowScriptEvents \/ LoaderCalls \/ Rebuilds

LoaderSpec == Init /\ [][LoaderNext]_vars

ConfigReads ==
    \/ GetConfigCall
    \/ \E f \in {"providers", "globalProperties"}, c \in SnapshotEdits : ReplaceSnapshotField(f, c)

ConfigWrites ==
    \/ \E p \in GlobalInputs : SetGlobalProperties(p)
    \/ Rebuilds

\* The configuration read by a caller that changes what it was handed, while
\* the configuration is updated
ConfigNext == ConfigReads \/ ConfigWrites

ConfigSpec == Init /\ [][ConfigNext]_vars

---------------------------------------------------------------------------
(* AnalyticsProxy: the queries *)

\* getAvailableProviders(): Array.from(this.providers.keys())
GetAvailableProviders == providers

\* isProviderEnabled(d): provider ? provider.isEnabled() : false
IsProviderEnabled(d) == InProviders(d) /\ inst[CurId(d)].enabled

\* getProviderStatus(): name -> provider.isEnabled(), for the providers of the Map
GetProviderStatus == [d \in {x \in ProviderName : InProviders(x)} |-> inst[CurId(d)].enabled]

\* getConfig(): { ...this.config }
GetConfig == config

---------------------------------------------------------------------------
(* Properties *)

TrackingOps == {"trackEvent", "identifyUser", "trackPageView"}

\* the calls of the last operation that deliver a payload to a vendor
Delivered(kinds) == {i \in 1..Len(calls) : calls[i].kind \in kinds}

\* bag b holds every key of bag m, with m's value
Carries(b, m) == \A k \in DOMAIN m : k \in DOMAIN b /\ b[k] = m[k]

\* C1: for every src at most one script element is ever created and appended:
\* exactly one once loadScript was called for it, however many calls were made while
\* the first was in flight, and none more once the src is loaded, when the cached
\* promise (if the cache still holds one) is a resolved one.
C1_OneFetchPerSrc ==
    \A u \in Srcs :
        /\ fetches[u] <= 1
        /\ (loadingPromises[u] # "none" \/ u \in loadedScripts) => fetches[u] = 1
        /\ u \in loadedScripts => loadingPromises[u] \in {"fulfilled", "none"}

\* a direct loadScript call made while an adapter's fetch of the same src is in flight
C1_Witness ==
    /\ lastOp.op = "loadScript"
    /\ scripts[SrcOf("logrocket")] = "loading"
    /\ onloadOwner[SrcOf("logrocket")] = <<0, "logrocket">>
    /\ loadingPromises[SrcOf("logrocket")] = "pending"
    /\ fetches[SrcOf("logrocket")] = 1

\* C2: a tracking operation makes no backend call for a destination that
\* disableProvider/disableAllProviders was called for and that no
\* enableProvider/enableAllProviders was called for since, whatever state the adapter
\* was in when it was disabled (stated for the adapters the constructor built).
C2_NoCallWhileDisabled ==
    (lastOp.op \in TrackingOps /\ gen = 0) =>
        \A i \in 1..Len(calls) : calls[i].dest \notin userDisabled

C4_CallScopedWins ==
    lastOp.op \in {"trackEvent", "trackPageView"} =>
        \A i \in Delivered({"track", "page"}) :
            LET g == inst[<<calls[i].gen, calls[i].dest>>].gp
            IN  /\ Carries(calls[i].props, lastOp.props)
                /\ \A k \in DOMAIN g :
                        /\ k \in DOMAIN calls[i].props
                        /\ k \notin DOMAIN lastOp.props => calls[i].props[k] = g[k]

\* a = "1" is global, the event gives a = "2", and "2" was delivered
C4_Witness ==
    /\ lastOp.op = "trackEvent"
    /\ \E i \in Delivered({"track"}) :
            /\ inst[<<calls[i].gen, calls[i].dest>>].gp["a"] = "1"
            /\ calls[i].props["a"] = "2"

\* C5: after disableAllProviders() every registered destination is disabled, after
\* enableAllProviders() every one is enabled, and disableProvider(d) / enableProvider(d)
\* leave a registered d disabled / enabled.
C5_TogglesReachEveryProvider ==
    /\ lastOp.op = "disableAllProviders" => \A d \in DOMAIN GetProviderStatus : ~GetProviderStatus[d]
    /\ lastOp.op = "enableAllProviders" => \A d \in DOMAIN GetProviderStatus : GetProviderStatus[d]
    /\ (lastOp.op = "disableProvider" /\ InProviders(lastOp.dest)) => ~IsProviderEnabled(lastOp.dest)
    /\ (lastOp.op = "enableProvider" /\ InProviders(lastOp.dest)) => IsProviderEnabled(lastOp.dest)

\* C6: an updateConfig whose partial names only registered destinations keeps every
\* other destination that was registered and ready: it is registered again, with an
\* adapter that is loading, polling or ready.
C6_OthersAreRebuilt ==
    [][(/\ lastOp'.op = "updateConfig" /\ gen' = gen + 1
        /\ \A a \in Declared(config'.providers) : InProviders(a)) =>
        \A b \in ProviderName :
            (InProviders(b) /\ inst[CurId(b)].phase = "ready"
                            /\ b \notin Declared(config'.providers)) =>
                /\ \E i \in 1..Len(providers') : providers'[i] = b
                /\ inst'[<<gen', b>>].phase \in {"acquiring", "joined", "polling", "ready"}]_vars

\* C7: an updateConfig with a providers key leaves the previous configuration with the
\* partial's keys replacing its own, and an adapter set of new adapters only, one for
\* each destination eligible in that configuration: each is in the state its
\* constructor leaves it in, and a destination the partial gives enabled: false is
\* not enabled.
C7_FullRebuild ==
    [][(lastOp'.op = "updateConfig" /\ gen' = gen + 1) =>
        /\ \E p \in Partials :
                /\ p.hasProviders
                /\ config'.providers = p.providers
                /\ config'.globalProperties =
                        IF p.globalProperties.has THEN p.globalProperties
                        ELSE config.globalProperties
        /\ \A d \in ProviderName :
                (\E i \in 1..Len(providers') : providers'[i] = d) <=>
                    \E i \in 1..Len(config'.providers) :
                        /\ config'.providers[i].name = d
                        /\ config'.providers[i].enabled /\ config'.providers[i].cred
        /\ \A i \in 1..Len(providers') :
                LET n == inst'[<<gen', providers'[i]>>]
                IN  /\ n.phase \in {"acquiring", "joined", "ready", "initError"}
                    /\ n.enabled = (n.phase = "ready")
                    /\ n.gp = EmptyBag /\ n.attempts = 0
        /\ \A i \in 1..Len(config'.providers) :
                ~config'.providers[i].enabled =>
                    \A j \in 1..Len(providers') :
                        providers'[j] = config'.providers[i].name =>
                            ~inst'[<<gen', providers'[j]>>].enabled
      ]_vars

\* a rebuild that registered two new adapters, one of them where a user-disabled
\* adapter stood
C7_Witness ==
    /\ lastOp.op = "updateConfig" /\ gen = 1
    /\ providers = <<"mixpanel", "logrocket">>
    /\ inst[<<1, "mixpanel">>].phase = "ready"
    /\ inst[<<1, "logrocket">>].phase \in {"acquiring", "joined"}

\* C8 as claimed: getAvailableProviders() lists the registered destinations in the
\* order the configuration declares them.
C8_DeclarationOrder ==
    GetAvailableProviders =
        SelectSeq([i \in 1..Len(config.providers) |-> config.providers[i].name],
                  LAMBDA d : \E i \in 1..Len(config.providers) :
                                /\ config.providers[i].name = d
                                /\ config.providers[i].enabled /\ config.providers[i].cred)

Rank(d) ==
    CASE d = "mixpanel" -> 1 [] d = "ga4" -> 2 [] d = "logrocket" -> 3 [] d = "amplitude" -> 4

\* C8 as amended: getAvailableProviders() lists exactly the eligible destinations, each
\* once, in the fixed order mixpanel, ga4, logrocket, amplitude.
C8_RegistrationOrder ==
    /\ \A d \in ProviderName :
            (\E i \in 1..Len(GetAvailableProviders) : GetAvailableProviders[i] = d) <=>
                \E i \in 1..Len(config.providers) :
                    /\ config.providers[i].name = d
                    /\ config.providers[i].enabled /\ config.providers[i].cred
    /\ \A i, j \in 1..Len(GetAvailableProviders) :
            i < j => Rank(GetAvailableProviders[i]) < Rank(GetAvailableProviders[j])

\* two of four declared destinations are eligible, and were declared ga4 first
C8_Witness ==
    /\ Len(config.providers) = 4
    /\ config.providers[1].name = "ga4" /\ config.providers[3].name = "mixpanel"
    /\ GetAvailableProviders = <<"mixpanel", "ga4">>

\* C9: the adapter set holds an adapter for a destination exactly if the
\* configuration declares it with enabled true and a credential, and neither the
\* constructor nor updateConfig throws.
C9_RegisteredIffEligible ==
    /\ \A d \in ProviderName :
            /\ InProviders(d) <=>
                    \E i \in 1..Len(config.providers) :
                        /\ config.providers[i].name = d
                        /\ config.providers[i].enabled /\ config.providers[i].cred
            /\ InProviders(d) => inst[CurId(d)].phase # "none"
    /\ lastOp.op \in {"constructor", "updateConfig"} => ~threw

\* a disabled destination and one without credential were left out by the constructor
C9_Witness ==
    /\ lastOp.op = "constructor"
    /\ \E i \in 1..Len(config.providers) : ~config.providers[i].enabled
    /\ \E i \in 1..Len(config.providers) :
            /\ config.providers[i].enabled /\ ~config.providers[i].cred
            /\ ~InProviders(config.providers[i].name)
    /\ Len(providers) = 2

\* C10: when the constructor returns, no vendor call having thrown, getProviderStatus()
\* is true for every destination the configuration enables with a credential.
C10_EnabledOnReturn ==
    (lastOp.op = "constructor" /\ \A c \in 1..Len(calls) : ~calls[c].threw) =>
        \A i \in 1..Len(config.providers) :
            (config.providers[i].enabled /\ config.providers[i].cred) =>
                IsProviderEnabled(config.providers[i].name)

\* C11: a tracking operation in which a backend call throws returns normally to its
\* caller and leaves the adapter set, every adapter (its enabled flag included) and the
\* global properties as they were.
C11_BackendErrorsAreCaught ==
    [][(lastOp'.op \in TrackingOps /\ \E i \in 1..Len(calls') : calls'[i].threw) =>
            /\ ~threw'
            /\ providers' = providers /\ gen' = gen
            /\ \A id \in Ids : inst'[id] = inst[id]
            /\ globalProperties' = globalProperties /\ config' = config]_vars

\* identifyUser has returned normally although the identify call of a backend threw
C11_Witness ==
    /\ lastOp.op = "identifyUser" /\ ~threw
    /\ \E i \in 1..Len(calls) : calls[i].kind = "identify" /\ calls[i].threw

C13_UnknownNameIsIgnored ==
    [][(/\ lastOp'.op \in {"enableProvider", "disableProvider"}
        /\ \A i \in 1..Len(providers) : providers[i] # lastOp'.dest) =>
            /\ ~threw' /\ calls' = <<>>
            /\ providers' = providers /\ gen' = gen /\ config' = config
            /\ \A id \in Ids : inst'[id] = inst[id]
            /\ ~inst'[<<gen', lastOp'.dest>>].enabled]_vars

\* enableProvider was called for a destination the configuration disables, next to
\* two registered ones
C13_Witness ==
    /\ lastOp.op = "enableProvider" /\ lastOp.dest = "amplitude"
    /\ providers = <<"mixpanel", "ga4">>
    /\ ~IsProviderEnabled("amplitude")

\* C14: after setGlobalProperties(p), getConfig().globalProperties is the dispatcher's
\* merged global properties (p itself for a dispatcher constructed without any).
C14_ConfigShowsGlobalProperties ==
    lastOp.op = "setGlobalProperties" => Spread(GetConfig.globalProperties) = globalProperties

\* C15: every registered adapter's own global properties equal the dispatcher's, for
\* the adapters the constructor built and for those an updateConfig rebuild built.
C15_AdapterBagsMirrorDispatcher ==
    \A i \in 1..Len(providers) : inst[CurId(providers[i])].gp = globalProperties

\* C16: setGlobalProperties(m) overwrites the dispatcher's bag key by key with m, keeping
\* the other keys, and does the same to the bag of every registered adapter, enabled or
\* not, without touching its enabled flag; enabling or disabling changes no bag; and a
\* trackEvent backend call carries every key of its adapter's bag.
C16_SetGlobalPropertiesMergesAndForwards ==
    [][/\ lastOp'.op = "setGlobalProperties" =>
            LET m == lastOp'.props
                merged(old, new) ==
                    /\ DOMAIN new = (DOMAIN old) \cup (DOMAIN m)
                    /\ \A k \in DOMAIN new : new[k] = IF k \in DOMAIN m THEN m[k] ELSE old[k]
            IN  /\ merged(globalProperties, globalProperties')
                /\ providers' = providers /\ gen' = gen
                /\ \A i \in 1..Len(providers) :
                        /\ merged(inst[CurId(providers[i])].gp, inst'[CurId(providers[i])].gp)
                        /\ inst'[CurId(providers[i])].enabled = inst[CurId(providers[i])].enabled
       /\ lastOp'.op \in {"enableProvider", "disableProvider",
                          "enableAllProviders", "disableAllProviders"} =>
            \A id \in Ids : inst'[id].gp = inst[id].gp
       /\ lastOp'.op = "trackEvent" =>
            \A c \in 1..Len(calls') :
                \A k \in DOMAIN inst'[<<calls'[c].gen, calls'[c].dest>>].gp :
                    k \in DOMAIN calls'[c].props
      ]_vars

\* properties were set while a registered adapter was disabled: its bag took the new
\* value of a, and the dispatcher's bag kept b
C16_Witness ==
    /\ lastOp.op = "setGlobalProperties"
    /\ globalProperties = Bag2("a", "1", "b", "1")
    /\ \E i \in 1..Len(providers) :
            /\ ~inst[CurId(providers[i])].enabled
            /\ inst[CurId(providers[i])].gp = Bag1("a", "1")

\* C17: the properties identifyUser forwards to a backend are the adapter's global
\* properties overlaid with the user's properties (no backend call having thrown).
C17_IdentifyIsEnriched ==
    (lastOp.op = "identifyUser" /\ \A c \in 1..Len(calls) : ~calls[c].threw) =>
        \A i \in 1..Len(providers) :
            LET id == CurId(providers[i])
                want == Merge(inst[id].gp, lastOp.props)
            IN  (inst[id].enabled /\ providers[i] \in win) =>
                    \E c \in Delivered({"identify", "profile"}) :
                        /\ calls[c].dest = providers[i]
                        /\ Carries(calls[c].props,
                                   IF providers[i] = "mixpanel"
                                   THEN MapToMixpanelProperties(want) ELSE want)

\* C18: enableProvider(d) for a destination the configuration declares with a
\* credential and enabled: false leaves isProviderEnabled(d) true.
C18_EnableTurnsOnConfiguredDestination ==
    (/\ lastOp.op = "enableProvider"
     /\ \E i \in 1..Len(config.providers) :
            /\ config.providers[i].name = lastOp.dest
            /\ config.providers[i].cred /\ ~config.providers[i].enabled) =>
        IsProviderEnabled(lastOp.dest)

\* C19: enableProvider(d) on a registered adapter sets its enabled flag and leaves its
\* acquisition/readiness state as it was; a tracking operation makes no backend call
\* for an adapter whose vendor global is not defined, and no later step that is not a
\* tracking operation makes a tracking call.
C19_EnabledIsIndependentOfReadiness ==
    [][/\ (/\ lastOp'.op = "enableProvider"
           /\ \E i \in 1..Len(providers) : providers[i] = lastOp'.dest) =>
            /\ inst'[<<gen', lastOp'.dest>>].enabled
            /\ inst'[<<gen', lastOp'.dest>>].phase = inst[<<gen, lastOp'.dest>>].phase
            /\ inst'[<<gen', lastOp'.dest>>].attempts = inst[<<gen, lastOp'.dest>>].attempts
       /\ lastOp'.op \in TrackingOps =>
            \A c \in 1..Len(calls') : calls'[c].dest \in win'
       /\ lastOp'.op \notin TrackingOps =>
            \A c \in 1..Len(calls') :
                calls'[c].kind \notin {"track", "identify", "profile", "page"}
      ]_vars

\* an adapter enabled while its script was loading took a trackEvent and called nothing
C19_Witness ==
    /\ lastOp.op = "trackEvent" /\ calls = <<>>
    /\ providers = <<"logrocket">>
    /\ inst[CurId("logrocket")].enabled
    /\ inst[CurId("logrocket")].phase = "acquiring"
    /\ "logrocket" \notin win

---------------------------------------------------------------------------
\* C21: updateConfig(partial) with a globalProperties field and no providers key
\* only merges and forwards: the same adapter instances stay registered, every
\* adapter keeps its enabled flag and its acquisition/readiness state, the script
\* cache and the DOM are untouched (no acquisition is started), no backend is
\* called; the configuration, the dispatcher's bag and every registered adapter's
\* bag take the merge.
C21_GlobalOnlyUpdateKeepsAdapters ==
    [][(lastOp'.op = "updateConfig" /\ lastOp'.name = "")
        => /\ gen' = gen
           /\ providers' = providers
           /\ \A id \in Ids : /\ inst'[id].phase = inst[id].phase
                              /\ inst'[id].enabled = inst[id].enabled
                              /\ inst'[id].attempts = inst[id].attempts
           /\ UNCHANGED <<Loader, win>>
           /\ calls' = <<>>
           /\ config'.providers = config.providers
           /\ config'.globalProperties = SomeProps(lastOp'.props)
           /\ globalProperties' = Merge(globalProperties, lastOp'.props)
           /\ \A d \in ProviderName :
                InProviders(d) => inst'[CurId(d)].gp = Merge(inst[CurId(d)].gp, lastOp'.props)
      ]_vars

\* a globalProperties-only update made while a registered adapter's script is
\* still being fetched, and one made after a destination was disabled
C21_Witness ==
    /\ lastOp.op = "updateConfig"
    /\ lastOp.name = ""
    /\ \E d \in ProviderName :
        /\ InProviders(d)
        /\ inst[CurId(d)].phase = "acquiring"
        /\ "b" \in DOMAIN inst[CurId(d)].gp
    /\ \E d \in ProviderName : InProviders(d) /\ d \in win /\ ~inst[CurId(d)].enabled

---------------------------------------------------------------------------
\* The names MixpanelProvider's table gives to the standard profile keys
ReservedName ==
    [email |-> "$email", name |-> "$name", firstName |-> "$first_name",
     first_name |-> "$first_name", lastName |-> "$last_name", last_name |-> "$last_name",
     phone |-> "$phone", avatar |-> "$avatar", created |-> "$created", city |-> "$city",
     region |-> "$region", country |-> "$country", timezone |-> "$timezone"]

\* C22: property names are remapped on identify calls only.  Mixpanel's profile
\* call carries each key of the table under its reserved name and every other key
\* under its own name, with the caller's value; the other adapters' identify calls,
\* and every trackEvent and trackPageView call, carry each key under its own name.
C22_RemapOnlyOnIdentify ==
    \A i \in 1..Len(calls) :
        /\ (lastOp.op = "identifyUser" /\ calls[i].dest = "mixpanel"
                /\ calls[i].kind = "profile")
            => \A k \in DOMAIN lastOp.props :
                 LET r == IF k \in DOMAIN ReservedName THEN ReservedName[k] ELSE k
                 IN  r \in DOMAIN calls[i].props /\ calls[i].props[r] = lastOp.props[k]
        /\ (lastOp.op = "identifyUser" /\ calls[i].dest # "mixpanel"
                /\ (calls[i].kind = "profile" \/ calls[i].dest = "logrocket"))
            => Carries(calls[i].props, lastOp.props)
        /\ (lastOp.op \in {"trackEvent", "trackPageView"}
                /\ calls[i].kind \in {"track", "page"})
            => Carries(calls[i].props, lastOp.props)

---------------------------------------------------------------------------
\* C23: getConfig() returns an object equal to the current configuration and
\* changes nothing of the dispatcher, its adapters or the script cache; assigning a
\* top-level field of the returned object changes neither the configuration a
\* later getConfig() returns nor the adapter set.
C23_GetConfigIsASnapshot ==
    [][/\ lastOp'.op = "getConfig"
            => /\ snapshot'.value = config
               /\ UNCHANGED <<Loader, win, inst, Dispatcher, userDisabled>>
       /\ lastOp'.op = "replaceField"
            => UNCHANGED <<Loader, win, inst, Dispatcher, userDisabled>>
      ]_vars

\* the caller emptied the providers field of the object it was handed, and the
\* dispatcher still holds its configuration and its adapters
C23_Witness ==
    /\ lastOp.op = "replaceField"
    /\ lastOp.name = "providers"
    /\ snapshot.value.providers = <<>>
    /\ Len(GetConfig.providers) > 0
    /\ Len(providers) > 0

---------------------------------------------------------------------------
\* C24: every adapter whose acquisition succeeded has entered its readiness poll:
\* once the script of a registered adapter has loaded, the adapter is polling or
\* its poll has ended (Ready, init error, timed out), whether the adapter started
\* the fetch, joined one in flight, or was built after the script had loaded; and
\* where the vendor global was defined by the load it is no longer waiting.
C24_AcquiredAdapterPolls ==
    \A d \in ScriptDests :
        (InProviders(d) /\ scripts[SrcOf(d)] = "loaded")
            => /\ inst[CurId(d)].phase \in {"polling", "ready", "initError", "timedOut"}
               /\ (d \in win /\ inst[CurId(d)].phase # "polling")
                    => inst[CurId(d)].phase \in {"ready", "initError"}

---------------------------------------------------------------------------
\* While an adapter is polling, inst[id].attempts is the number of times its poll
\* has evaluated the readiness predicate, and one timer is armed for the next.
\* The timer of the poll of adapter id fires in this step:
PollTimerFires(id) ==
    /\ lastOp'.op = "timer"
    /\ inst[id].phase = "polling"
    /\ inst'[id] # inst[id]

\* C25 (as stated): a poll evaluates its readiness predicate at most 10 times
\* before it gives up: no timer of a poll fires once the predicate has been
\* evaluated 10 times.
C25_AtMostTenEvaluations ==
    [][\A id \in Ids : PollTimerFires(id) => inst[id].attempts < MaxAttempts]_vars

\* C25 (amended): a poll evaluates its readiness predicate at most 11 times: once
\* when onLoad starts it and once per timer, of which it arms at most 10, one at a
\* time; it gives up exactly when the 11th evaluation fails.
C25_AtMostElevenEvaluations ==
    [][\A id \in Ids :
        /\ (inst[id].phase # "polling" /\ inst'[id].phase = "polling")
            => inst'[id].attempts = 1
        /\ PollTimerFires(id)
            => /\ inst[id].attempts \in 1..MaxAttempts
               /\ inst'[id].phase = "polling"
                    => /\ inst[id].attempts < MaxAttempts
                       /\ inst'[id].attempts = inst[id].attempts + 1
               /\ inst'[id].phase = "timedOut" => inst[id].attempts = MaxAttempts
      ]_vars

\* a registered adapter's poll has just given up, the vendor global still undefined
C25_Witness ==
    /\ lastOp.op = "timer"
    /\ InProviders(lastOp.dest)
    /\ inst[CurId(lastOp.dest)].phase = "timedOut"
    /\ lastOp.dest \notin win

---------------------------------------------------------------------------
\* The poll of the registered adapter id ends in this step
PollEnds(id) ==
    /\ id[1] = gen'
    /\ inst[id].phase = "polling"
    /\ inst'[id].phase # "polling"

\* C26 (as stated): a poll ends with its adapter either Ready, the poll having set
\* the enabled flag, or ReadinessTimedOut.
C26_EndsReadyOrTimedOut ==
    [][\A id \in Ids :
        PollEnds(id) => \/ inst'[id].phase = "ready" /\ inst'[id].enabled
                        \/ inst'[id].phase = "timedOut"]_vars

\* C26 (amended): every poll terminates.  Each timer that fires either ends the
\* poll or adds one to a count that never passes 10; a poll ends with its adapter
\* Ready (the poll having set the enabled flag), ReadinessTimedOut, or stopped by
\* an exception of the vendor's init call; after that no timer of the poll is
\* armed, and a timed-out adapter stays timed out with its enabled flag false,
\* also when the vendor global is defined later.
C26_PollTerminates ==
    [][\A id \in Ids :
        /\ PollTimerFires(id)
            => \/ inst'[id].phase # "polling"
               \/ inst[id].attempts < inst'[id].attempts /\ inst'[id].attempts <= MaxAttempts
        /\ PollEnds(id)
            => \/ inst'[id].phase = "ready" /\ inst'[id].enabled
               \/ inst'[id].phase = "timedOut" /\ ~inst'[id].enabled
               \/ inst'[id].phase = "initError"
        /\ inst[id].phase \in {"ready", "timedOut", "initError"}
            => inst'[id].phase \in {inst[id].phase, "none"}
        /\ inst[id].phase = "timedOut" => ~inst'[id].enabled
      ]_vars

\* the vendor global was defined after a registered adapter's poll had given up
C26_Witness ==
    /\ lastOp.op = "define"
    /\ InProviders(lastOp.dest)
    /\ lastOp.dest \in win
    /\ inst[CurId(lastOp.dest)].phase = "timedOut"
    /\ ~IsProviderEnabled(lastOp.dest)

---------------------------------------------------------------------------
\* C27: after the acquisition of u has failed the cache keeps the failed entry.
\* isScriptLoaded(u) is false, and until clearCache() every step, a later
\* loadScript(u) or a rebuild of the adapters among them, leaves the rejected
\* promise in the cache, creates no script element, marks nothing loaded and
\* starts no adapter's poll for u.
C27_FailedEntryIsKept ==
    /\ [](\A u \in Srcs : loadingPromises[u] = "rejected" => u \notin loadedScripts)
    /\ [][\A u \in Srcs :
            (loadingPromises[u] = "rejected" /\ lastOp'.op # "clearCache")
                => /\ loadingPromises'[u] = "rejected"
                   /\ u \notin loadedScripts'
                   /\ fetches'[u] = fetches[u]
                   /\ scripts'[u] = scripts[u]
                   /\ \A g \in Gens :
                        /\ inst'[<<g, DestOf(u)>>].phase \notin {"polling", "ready", "initError"}
                        /\ ~inst'[<<g, DestOf(u)>>].enabled
         ]_vars

\* loadScript(u) was called again after u's only fetch had failed
C27_Witness ==
    /\ lastOp.op = "loadScript"
    /\ loadingPromises[SrcOf(lastOp.dest)] = "rejected"
    /\ scripts[SrcOf(lastOp.dest)] = "failed"
    /\ fetches[SrcOf(lastOp.dest)] = 1
    /\ SrcOf(lastOp.dest) \notin loadedScripts

---------------------------------------------------------------------------
\* C28: at most one acquisition per src is pending at a time: a pending promise in
\* the cache stands for the one script element of that src, still loading.  Once
\* isScriptLoaded(u) is true it stays true until clearCache(), and no step, a
\* later loadScript(u) among them, makes u pending again.
C28_LoadedStaysLoaded ==
    /\ [](\A u \in Srcs :
            loadingPromises[u] = "pending" => scripts[u] = "loading" /\ fetches[u] = 1)
    /\ [][\A u \in Srcs :
            /\ (u \in loadedScripts /\ lastOp'.op # "clearCache")
                => u \in loadedScripts' /\ fetches'[u] = fetches[u]
            /\ u \in loadedScripts => loadingPromises'[u] # "pending"
         ]_vars

\* loadScript(u) was called again for a src that was already loaded
C28_Witness ==
    /\ lastOp.op = "loadScript"
    /\ SrcOf(lastOp.dest) \in loadedScripts
    /\ scripts[SrcOf(lastOp.dest)] = "loaded"
    /\ loadingPromises[SrcOf(lastOp.dest)] = "fulfilled"
    /\ fetches[SrcOf(lastOp.dest)] = 1

---------------------------------------------------------------------------
\* the place of a registered destination in the Map
Pos(d) == CHOOSE i \in 1..Len(providers) : providers[i] = d

\* C29: within one dispatcher call the adapters are reached in registration order,
\* each once.  The backend calls of trackEvent, identifyUser and trackPageView come
\* from registered adapters that were enabled when the call was made, in the order
\* of the Map, no adapter making the same call twice; enableAllProviders and
\* disableAllProviders set the flags in the order of the Map, so that when an
\* adapter's enable()/disable() throws, the adapters up to it have the new flag and
\* those after it are untouched.
C29_RegistrationOrderWithinACall ==
    [][LET all == {"enableAllProviders", "disableAllProviders"}
           on == lastOp'.op = "enableAllProviders"
           n == Len(calls')
       IN  /\ lastOp'.op \in TrackingOps \cup all
                => /\ \A i \in 1..n : InProviders(calls'[i].dest) /\ calls'[i].gen = gen
                   /\ \A i, j \in 1..n :
                        i < j => /\ Pos(calls'[i].dest) <= Pos(calls'[j].dest)
                                 /\ calls'[i].dest = calls'[j].dest
                                        => calls'[i].kind # calls'[j].kind
           /\ lastOp'.op \in TrackingOps
                => \A i \in 1..n : inst[CurId(calls'[i].dest)].enabled
           /\ (lastOp'.op \in all /\ ~threw')
                => \A d \in ProviderName : InProviders(d) => inst'[CurId(d)].enabled = on
           /\ (lastOp'.op \in all /\ threw')
                => \A d \in ProviderName :
                     InProviders(d)
                        => IF Pos(d) <= Pos(calls'[n].dest)
                           THEN inst'[CurId(d)].enabled = on
                           ELSE inst'[CurId(d)] = inst[CurId(d)]
      ]_vars

\* a page view delivered to two adapters, the one registered first called first
C29_Witness ==
    /\ lastOp.op = "trackPageView"
    /\ Len(providers) >= 2
    /\ Len(calls) = 2
    /\ calls[1].dest = providers[1]
    /\ calls[2].dest = providers[2]

---------------------------------------------------------------------------
\* What a step that belongs to a discarded adapter may do: no registered adapter
\* changes (so isProviderEnabled and getProviderStatus answer as before), the
\* adapter set stays, and the only backend calls are the discarded adapter's init.
OnlyTheOrphanActs ==
    /\ providers' = providers
    /\ \A d \in ProviderName : inst'[CurId(d)] = inst[CurId(d)]
    /\ \A i \in 1..Len(calls') : calls'[i].kind \in {"init", "js"} /\ calls'[i].gen < gen

\* C30: the acquisition and the poll of an adapter that a rebuild discarded are
\* not cancelled.  The rebuild leaves the script's handlers and the poll's count as
\* they were; the load event and the timers of the discarded adapter still run, and
\* what they do (its init call, its enable()) touches no registered adapter and
\* makes no tracking call.
C30_OrphanRunsOnAlone ==
    [][/\ (lastOp'.op = "updateConfig" /\ gen' # gen)
            => \A id \in Ids :
                 inst[id].phase \in {"acquiring", "polling"}
                    => /\ inst'[id].phase = inst[id].phase
                       /\ inst'[id].attempts = inst[id].attempts
                       /\ \A u \in Srcs : onloadOwner[u] = id => onloadOwner'[u] = id
       /\ (lastOp'.op \in {"onload", "onerror"}
                /\ onloadOwner[SrcOf(lastOp'.dest)] # NoCb
                /\ onloadOwner[SrcOf(lastOp'.dest)][1] < gen)
            => OnlyTheOrphanActs
       /\ (lastOp'.op = "timer" /\ \E id \in Ids : id[1] < gen /\ PollTimerFires(id))
            => OnlyTheOrphanActs
      ]_vars

\* the poll of a discarded adapter has just succeeded and called the vendor's
\* init, while the adapter registered for that destination is still not enabled
C30_Witness ==
    /\ lastOp.op = "timer"
    /\ Len(calls) = 1
    /\ calls[1].kind = "init"
    /\ calls[1].gen < gen
    /\ ~calls[1].threw
    /\ InProviders(lastOp.dest)
    /\ ~IsProviderEnabled(lastOp.dest)

---------------------------------------------------------------------------
\* C31: a destination that disableProvider(d) disabled stays disabled across a
\* rebuild that keeps it registered: if isProviderEnabled(d) was false when
\* updateConfig with a providers key was called (the call before it having returned
\* normally), it is false when updateConfig returns.
C31_DisabledAcrossRebuild ==
    [][(lastOp'.op = "updateConfig" /\ lastOp'.name = "providers" /\ ~threw)
        => \A d \in userDisabled :
             (~IsProviderEnabled(d) /\ \E i \in 1..Len(providers') : providers'[i] = d)
                => ~inst'[<<gen', d>>].enabled
      ]_vars

---------------------------------------------------------------------------
\* C35: enableAllProviders() and disableAllProviders() return normally and leave
\* every registered adapter's enabled flag true, respectively false, also when an
\* adapter's opt-in / opt-out call to its backend raises an error (stated for
\* adapter sets in which no backend failed to initialise).
C35_ToggleAllSurvivesBackendError ==
    (/\ lastOp.op \in {"enableAllProviders", "disableAllProviders"}
     /\ \A d \in ProviderName : InProviders(d) => inst[CurId(d)].phase # "initError")
        => /\ ~threw
           /\ \A d \in ProviderName :
                InProviders(d) => (inst[CurId(d)].enabled <=> lastOp.op = "enableAllProviders")

---------------------------------------------------------------------------
\* keys the adapters add to a tracking call themselves
VendorKeys == {"event_category", "event_label", "url", "title", "page_title", "page_location"}

\* C36: trackEvent, identifyUser and trackPageView leave the caller's payload as
\* it was passed, and every adapter of the fan-out works from that payload: each
\* call carries the payload's own properties, nothing beyond them but what the
\* calling adapter adds (its own global properties, its vendor's keys), and an
\* identify call outside Mixpanel's renaming carries exactly the user's properties.
C36_PayloadIsNotModified ==
    lastOp.op \in TrackingOps
        => /\ lastOp.after = lastOp.props
           /\ \A i \in Delivered({"track", "page"}) :
                /\ Carries(calls[i].props, lastOp.props)
                /\ DOMAIN calls[i].props \subseteq
                        DOMAIN lastOp.props \cup DOMAIN inst[<<calls[i].gen, calls[i].dest>>].gp
                            \cup VendorKeys
           /\ \A i \in Delivered({"profile"}) :
                calls[i].dest # "mixpanel" => calls[i].props = lastOp.props

\* an event delivered to two adapters, each adding a global property the payload
\* does not hold, and the payload still without it
C36_Witness ==
    /\ lastOp.op = "trackEvent"
    /\ Len(calls) = 2
    /\ calls[1].dest # calls[2].dest
    /\ \E k \in DOMAIN calls[1].props \cap DOMAIN calls[2].props :
            k \in DOMAIN globalProperties /\ k \notin DOMAIN lastOp.after

---------------------------------------------------------------------------
\* C37: a page view is delivered with the url and the title of its payload,
\* whatever keys the call-scoped or the global properties hold: under url and title
\* for Mixpanel, LogRocket and Amplitude, under page_location and page_title for GA4
\* (stated for the backend calls that return normally).
C37_UrlAndTitleAreThePayloads ==
    lastOp.op = "trackPageView"
        => \A i \in Delivered({"page"}) :
             ~calls[i].threw
                => \E pv \in PageViews :
                     /\ pv.url = lastOp.name
                     /\ IF calls[i].dest = "ga4"
                        THEN /\ calls[i].props["page_location"] = pv.url
                             /\ calls[i].props["page_title"] = pv.title
                        ELSE /\ calls[i].props["url"] = pv.url
                             /\ calls[i].props["title"] = pv.title

---------------------------------------------------------------------------
\* C33: isScriptLoaded(u) is true, and a promise for u is resolved, only when the
\* fetch of u has completed successfully: never while the script element of u is
\* still loading or after it failed.
C33_LoadedMeansFetched ==
    \A u \in Srcs :
        (u \in loadedScripts \/ loadingPromises[u] = "fulfilled") => scripts[u] = "loaded"

---------------------------------------------------------------------------
\* C34: clearCache() leaves isScriptLoaded(u) false and getLoadingPromise(u)
\* absent for every u, and a src in that state stays in it until loadScript(u) is
\* called again (directly, or by an adapter built in a rebuild), also when a fetch
\* of u that was started before the clear completes after it.
C34_ClearedUntilNextLoad ==
    [][/\ lastOp'.op = "clearCache"
            => \A u \in Srcs : u \notin loadedScripts' /\ loadingPromises'[u] = "none"
       /\ ~(lastOp'.op = "loadScript" \/ (lastOp'.op = "updateConfig" /\ gen' # gen))
            => \A u \in Srcs :
                 (u \notin loadedScripts /\ loadingPromises[u] = "none")
                    => (u \notin loadedScripts' /\ loadingPromises'[u] = "none")
      ]_vars

---------------------------------------------------------------------------
\* C32: an adapter forwards a tracking call to its backend only after it has
\* initialised that backend: every track, identify, profile and page call comes
\* from an adapter whose init call has returned normally, that is, a Ready one
\* (stated for adapter sets in which no backend failed to initialise, and for
\* operations in which no backend call raised an error).
C32_InitBeforeTracking ==
    (/\ \A d \in ProviderName : InProviders(d) => inst[CurId(d)].phase # "initError"
     /\ \A i \in 1..Len(calls) : ~calls[i].threw)
        => \A i \in Delivered({"track", "identify", "profile", "page"}) :
             inst[<<calls[i].gen, calls[i].dest>>].phase = "ready"

=============================================================================
